---- MODULE Spec2Model ----
(***************************************************************************)
(* A model of src/main.py: a synthetic fraud-detection training script.    *)
(* The module-level code (imports, optional-dependency detection, entry    *)
(* guard) and the body of main() are modelled statement by statement; the  *)
(* helper functions generate_data, build_preprocessor, get_model, train    *)
(* and evaluate are modelled by operators computed as the code and the     *)
(* library calls it makes compute them.                                    *)
(***************************************************************************)
EXTENDS Integers, Sequences, FiniteSets, TLC

VARIABLES
    host,           \* how the file is executed: "script" or "interactive"
    mod,            \* position in the module-level code
    modFault,       \* the module-level statement that raised, or "none"
    XGB_AVAILABLE,  \* main.py:12-16
    SMOTE,          \* main.py:18-21, "SMOTE" (the class) or "None"
    rng,            \* state of the process-wide numpy generator
    pc,             \* position in main()
    fault,          \* the statement of main() whose library call raised, or "none"
    run,            \* number of calls of main() so far
    calls,          \* per stage: times entered in the current run
    returns,        \* per stage: times completed in the current run
    console,        \* lines printed in the current run
    file,           \* fraud_model.pkl: <<>> when absent, else <<content>>
    fileAtCall,     \* file as it was when main() was entered
    df,             \* main.py:79
    split,          \* main.py:82  X_train, X_test, y_train, y_test
    heap,           \* the objects created by the run, by reference
    locals,         \* main()/train()/evaluate() locals holding references
    work,           \* train()/evaluate() intermediate arrays
    trace,          \* the library calls of the current run, in order
    prev,           \* the outcome of the previous completed run, <<>> if none
    gmAvail,        \* get_model called directly: XGB_AVAILABLE of the process
    gmLog,          \* get_model called directly: calls made, <<name, classifier>>
    bpTable,        \* build_preprocessor called directly: the feature table
    bpPlan,         \* build_preprocessor called directly: <<>> or <<ColumnTransformer>>
    bpFit,          \* build_preprocessor called directly: <<>> or <<fitted state>>
    bpOut           \* build_preprocessor called directly: <<>> or <<transform outcome>>

mainVars == <<host, mod, modFault, XGB_AVAILABLE, SMOTE, rng, pc, fault, run,
              calls, returns, console, file, fileAtCall, df, split, heap,
              locals, work, trace, prev>>
gmVars == <<gmAvail, gmLog>>
bpVars == <<bpTable, bpPlan, bpFit, bpOut>>
vars == <<mainVars, gmVars, bpVars>>

----------------------------------------------------------------------------
(* Bounds of the model. *)

\* rows generated per run (the code's default is n=1000)
NRows == 4
\* number of states of the modelled process-wide generator
RngMod == 16
\* calls of main() in one interactive session
MaxRuns == 2
\* get_model called directly: calls made
MaxCalls == 3
\* build_preprocessor called directly: columns and rows of the feature table
MaxCols == 2
MaxFitRows == 2

(* Program constants. *)
Seed == 42
TestPct == 25
FraudPct == 5
HourRange == 24
RfEstimators == 300
RfRandomState == 42
XgbEstimators == 300
XgbMaxDepth == 6
SmoteRandomState == 42

----------------------------------------------------------------------------
(* Generic helpers. *)

RECURSIVE SumSeq(_)
SumSeq(s) == IF s = <<>> THEN 0 ELSE Head(s) + SumSeq(Tail(s))

RECURSIVE SelectIdx(_, _, _)
\* the indices i of 1..n, ascending from i, for which keep[i] holds
SelectIdx(keep, i, n) ==
    IF i > n THEN <<>>
    ELSE (IF keep[i] THEN <<i>> ELSE <<>>) \o SelectIdx(keep, i + 1, n)

Max(a, b) == IF a >= b THEN a ELSE b

----------------------------------------------------------------------------
(* The process-wide generator: numpy's global RandomState, as a small      *)
(* congruential generator.                                                 *)

RngStates == 0 .. (RngMod - 1)

\* one draw: a congruential step
Lcg(s) == (9 * s + 7) % RngMod

RECURSIVE Advance(_, _)
\* the state after k draws from state s
Advance(s, k) == IF k = 0 THEN s ELSE Advance(Lcg(s), k - 1)

\* the k values drawn from state s; value i is the state after i draws
Draws(s, k) == [i \in 1 .. k |-> Advance(s, i)]

\* generate_data without its np.random.seed call: the state stays as found
SeedRngSkipped(s) == s

\* np.random.seed(42): the state is replaced, whatever it was
SeedRng(s) == Seed % RngMod

----------------------------------------------------------------------------
(* 1. generate_data                                                        *)

PaymentMethods == <<"CARD", "UPI", "NETBANKING">>
DeviceTypes == <<"MOBILE", "DESKTOP">>

\* generate_data(n) run with the generator in state s: the table (a sequence
\* of rows) and the generator's state afterwards.  Five columns are drawn in
\* order, n values each.
generate_data(n, s) ==
    LET s0 == SeedRng(s)
        d == Draws(s0, 5 * n)
    IN  [table |-> [i \in 1 .. n |->
                     [amount         |-> d[i],
                      payment_method |-> PaymentMethods[(d[n + i] % 3) + 1],
                      device_type    |-> DeviceTypes[(d[2 * n + i] % 2) + 1],
                      hour           |-> d[3 * n + i] % HourRange,
                      is_fraud       |-> IF d[4 * n + i] * 100 < FraudPct * RngMod
                                         THEN 1 ELSE 0]],
         rng   |-> Advance(s0, 5 * n)]

\* df.drop(columns=["is_fraud"]) and df["is_fraud"]
DropLabel(r) == [amount |-> r.amount, payment_method |-> r.payment_method,
                 device_type |-> r.device_type, hour |-> r.hour]

----------------------------------------------------------------------------
(* train_test_split(X, y, stratify=y, test_size=0.25): no random_state, so *)
(* the shuffle draws from the process-wide generator.                      *)

\* ceil(test_size * n)
NTest(n) == (n * TestPct + 99) \div 100

\* the shuffle: the row order rotated by the value drawn
Shuffled(n, r) == [i \in 1 .. n |-> ((i - 1 + r) % n) + 1]

RECURSIVE TakeClass(_, _, _, _)
\* the first k indices of order whose label is c
TakeClass(order, lab, c, k) ==
    IF k = 0 \/ order = <<>> THEN {}
    ELSE IF lab[Head(order)] = c
         THEN {Head(order)} \cup TakeClass(Tail(order), lab, c, k - 1)
         ELSE TakeClass(Tail(order), lab, c, k)

\* the held-out row indices, stratified: each class gives its floor share of
\* the test rows and the row still owed comes from the class with the larger
\* remainder (a tie is broken by the value drawn), in shuffled order
TestIdx(lab, r) ==
    LET n == Len(lab)
        order == Shuffled(n, r)
        cnt(c) == Cardinality({i \in 1 .. n : lab[i] = c})
        share(c) == (cnt(c) * NTest(n)) \div n
        rem(c) == (cnt(c) * NTest(n)) % n
        owed == NTest(n) - share(0) - share(1)
        favoured == IF rem(1) > rem(0) THEN 1
                    ELSE IF rem(0) > rem(1) THEN 0 ELSE r % 2
        extra(c) == IF c = favoured THEN owed ELSE 0
    IN  TakeClass(order, lab, 0, share(0) + extra(0)) \cup
        TakeClass(order, lab, 1, share(1) + extra(1))

train_test_split(table, s) ==
    LET n == Len(table)
        lab == [i \in 1 .. n |-> table[i].is_fraud]
        r == Lcg(s)
        order == Shuffled(n, r)
        test == TestIdx(lab, r)
        inTest == [i \in 1 .. n |-> order[i] \in test]
        inTrain == [i \in 1 .. n |-> order[i] \notin test]
        te == SelectIdx(inTest, 1, n)
        tr == SelectIdx(inTrain, 1, n)
    IN  [X_train |-> [i \in 1 .. Len(tr) |-> DropLabel(table[order[tr[i]]])],
         X_test  |-> [i \in 1 .. Len(te) |-> DropLabel(table[order[te[i]]])],
         y_train |-> [i \in 1 .. Len(tr) |-> table[order[tr[i]]].is_fraud],
         y_test  |-> [i \in 1 .. Len(te) |-> table[order[te[i]]].is_fraud],
         rng     |-> r]

----------------------------------------------------------------------------
(* 2. build_preprocessor                                                   *)
(* A feature table is [cols, dtype, rows]: the column names in order, the  *)
(* dtype of each column, and the rows as functions from column name to     *)
(* value.                                                                  *)

Dtypes == {"int64", "float64", "object", "bool"}

\* the dtypes under np.number (bool is not one of them)
IsNumber(dt) == dt \in {"int64", "float64"}

\* X.select_dtypes(include=[np.number]).columns.tolist()
NumCols(t) == SelectSeq(t.cols, LAMBDA c : IsNumber(t.dtype[c]))

\* X.select_dtypes(exclude=[np.number]).columns.tolist(), with the bug of
\* selecting the string columns only
CatColsObjectOnly(t) == SelectSeq(t.cols, LAMBDA c : t.dtype[c] = "object")

\* X.select_dtypes(exclude=[np.number]).columns.tolist()
CatCols(t) == SelectSeq(t.cols, LAMBDA c : ~IsNumber(t.dtype[c]))

\* the unfit ColumnTransformer: StandardScaler on num, OneHotEncoder on cat
build_preprocessor(t) ==
    [num |-> NumCols(t), cat |-> CatCols(t), handle_unknown |-> "ignore"]

SeqRange(s) == {s[i] : i \in DOMAIN s}

\* ColumnTransformer.fit: per numeric column the count and sum the scaler
\* centres with, per categorical column the categories observed
FitPreprocessor(plan, rows) ==
    [num            |-> plan.num,
     cat            |-> plan.cat,
     handle_unknown |-> plan.handle_unknown,
     n              |-> Len(rows),
     sum            |-> [c \in SeqRange(plan.num) |->
                            SumSeq([i \in DOMAIN rows |-> rows[i][c]])],
     categories     |-> [c \in SeqRange(plan.cat) |->
                            {rows[i][c] : i \in DOMAIN rows}]]

\* whether the row holds a category the encoder did not see at fit time
HasUnknown(st, row) ==
    \E c \in SeqRange(st.cat) : row[c] \notin st.categories[c]

\* one transformed row: per numeric column the centred value (times n, to
\* stay in the integers), per categorical column one indicator per category
TransformRow(st, row) ==
    [num |-> [c \in SeqRange(st.num) |-> st.n * row[c] - st.sum[c]],
     ind |-> [c \in SeqRange(st.cat) |->
                [v \in st.categories[c] |-> IF row[c] = v THEN 1 ELSE 0]]]

\* ColumnTransformer.transform: an unknown category raises unless
\* handle_unknown is "ignore"
Transform(st, rows) ==
    IF st.handle_unknown # "ignore" /\ \E i \in DOMAIN rows : HasUnknown(st, rows[i])
    THEN [ok |-> FALSE, rows |-> <<>>]
    ELSE [ok |-> TRUE, rows |-> [i \in DOMAIN rows |-> TransformRow(st, rows[i])]]

\* the feature table of main(): the four columns left by dropping is_fraud
FeatureCols == <<"amount", "payment_method", "device_type", "hour">>
FeatureDtypes == [c \in SeqRange(FeatureCols) |->
                    CASE c = "amount" -> "float64"
                      [] c = "hour" -> "int64"
                      [] OTHER -> "object"]
FeatureTable(rows) == [cols |-> FeatureCols, dtype |-> FeatureDtypes, rows |-> rows]

----------------------------------------------------------------------------
(* 3. get_model                                                            *)

RandomForestClassifier ==
    [kind |-> "RandomForestClassifier",
     params |-> [n_estimators |-> RfEstimators, random_state |-> RfRandomState]]

XGBClassifier ==
    [kind |-> "XGBClassifier",
     params |-> [n_estimators |-> XgbEstimators, max_depth |-> XgbMaxDepth,
                 learning_rate |-> "0.1", n_jobs |-> -1]]

\* get_model without the availability test: the name alone decides
get_model_unguarded(name, avail) ==
    IF name = "xgb"
    THEN (IF avail THEN [ok |-> TRUE, clf |-> XGBClassifier]
                   ELSE [ok |-> FALSE, clf |-> RandomForestClassifier])
    ELSE [ok |-> TRUE, clf |-> RandomForestClassifier]

\* get_model(name) in a process whose XGB_AVAILABLE is avail.  ok is FALSE
\* when the call raises: the name XGBClassifier is unbound when the import
\* failed, and the code reads it only behind the availability test.
get_model(name, avail) ==
    IF name = "xgb" /\ avail
    THEN [ok |-> TRUE, clf |-> XGBClassifier]
    ELSE [ok |-> TRUE, clf |-> RandomForestClassifier]

----------------------------------------------------------------------------
(* 4. train: the library calls it makes                                    *)

\* SMOTE(random_state=42).fit_resample raises when y holds a single class
SmoteRaises(y) == \A i \in DOMAIN y : y[i] = y[1]

\* SMOTE(random_state=42).fit_resample(X, y): minority rows are synthesised
\* until the classes are balanced; a synthetic row is modelled by the
\* minority row it is interpolated from, picked by the resampler's own seed
fit_resample(X, y) ==
    LET n == Len(y)
        ones == SelectIdx([i \in 1 .. n |-> y[i] = 1], 1, n)
        zeros == SelectIdx([i \in 1 .. n |-> y[i] = 0], 1, n)
        minority == IF Len(ones) <= Len(zeros) THEN 1 ELSE 0
        mrows == IF minority = 1 THEN ones ELSE zeros
        need == Max(Len(ones), Len(zeros)) - Len(mrows)
        pick(i) == mrows[((SmoteRandomState + i) % Len(mrows)) + 1]
    IN  [X |-> X \o [i \in 1 .. need |-> X[pick(i)]],
         y |-> y \o [i \in 1 .. need |-> minority]]

\* an object on the heap: what it is, how often fit was called on it, and
\* its fitted state (<<>> while unfit)
NewObject(kind, params) == [kind |-> kind, params |-> params, fits |-> 0, state |-> <<>>]

\* the effect of obj.fit(...) leaving the fitted state st
Fitted(obj, st) == [obj EXCEPT !.fits = @ + 1, !.state = <<st>>]

\* classifier.fit(X, y): the fitted state is what the data and the
\* estimator's own parameters determine
FitClassifier(obj, X, y) == Fitted(obj, [X |-> X, y |-> y, params |-> obj.params])

\* classifier.predict(X): the label of a training row equal to the row if
\* there is one, else the majority label
PredictRow(st, x) ==
    LET hits == SelectIdx([i \in 1 .. Len(st.y) |-> st.X[i] = x], 1, Len(st.y))
    IN  IF hits # <<>> THEN st.y[hits[1]]
        ELSE IF 2 * SumSeq(st.y) > Len(st.y) THEN 1 ELSE 0
predict(st, X) == [i \in DOMAIN X |-> PredictRow(st, X[i])]

\* classifier.predict_proba(X)[:, 1], in percent
predict_proba(st, X) ==
    [i \in DOMAIN X |-> (100 * (SumSeq(st.y) + PredictRow(st, X[i]))) \div (Len(st.y) + 1)]

\* Pipeline([("prep", preprocessor), ("clf", model)]) built on clones of the
\* two estimators (sklearn.clone: same parameters, unfit)
PipelineOfClones(h, prepRef, clfRef) ==
    h \o <<NewObject(h[prepRef].kind, h[prepRef].params),
           NewObject(h[clfRef].kind, h[clfRef].params),
           NewObject("Pipeline", [steps |-> <<[name |-> "prep", ref |-> Len(h) + 1],
                                              [name |-> "clf", ref |-> Len(h) + 2]>>])>>

\* Pipeline([("prep", preprocessor), ("clf", model)]): the constructor keeps
\* the references it is given; the new object is the last on the heap
Pipeline(h, prepRef, clfRef) ==
    h \o <<NewObject("Pipeline", [steps |-> <<[name |-> "prep", ref |-> prepRef],
                                              [name |-> "clf", ref |-> clfRef]>>])>>

\* pipe.named_steps[name]
NamedStep(h, pipeRef, name) ==
    LET st == h[pipeRef].params.steps
    IN  st[CHOOSE i \in DOMAIN st : st[i].name = name].ref

\* joblib.dump(pipe, path): the pipeline with the objects it refers to
Pickle(h, pipeRef) ==
    [complete |-> TRUE,
     steps |-> [i \in DOMAIN h[pipeRef].params.steps |->
                  [name |-> h[pipeRef].params.steps[i].name,
                   obj  |-> h[h[pipeRef].params.steps[i].ref]]]]

\* a file that an earlier program left at the path, and a file cut short
StaleArtifact == [complete |-> TRUE, steps |-> <<>>]
PartialArtifact == [complete |-> FALSE, steps |-> <<>>]

----------------------------------------------------------------------------
(* Module-level code: imports, optional dependencies, the entry guard.     *)

\* the names bound in the module's namespace on every path to line 97
ModuleGlobals ==
    {"__name__", "__file__", "__doc__", "__builtins__",
     "joblib", "warnings", "np", "pd", "ColumnTransformer", "OneHotEncoder",
     "StandardScaler", "Pipeline", "train_test_split", "classification_report",
     "roc_auc_score", "RandomForestClassifier", "XGB_AVAILABLE",
     "SMOTE", "generate_data", "build_preprocessor", "get_model", "train",
     "evaluate", "main"}

\* the value a name of the namespace holds, as far as the guard can tell
GlobalValue(name) == IF name = "__name__" THEN "__main__" ELSE "object"

\* the name the guard reads and the literal it compares it with
GuardName == "_name_"
GuardLiteral == "_main_"

Stages == {"DataSource", "Split", "PreprocessorBuilder", "ModelSelector",
           "Trainer", "Evaluator", "Persistence"}

NoLocals == [preprocessor |-> 0, model |-> 0, pipe |-> 0]
NoWork == [X_processed |-> <<>>, y |-> <<>>, X_proc |-> <<>>,
           y_pred |-> <<>>, y_prob |-> <<>>]

IdleMain ==
    /\ host = "script" /\ mod = "imports" /\ modFault = "none"
    /\ XGB_AVAILABLE = <<>> /\ SMOTE = "unbound" /\ rng = 0
    /\ pc = "idle" /\ fault = "none" /\ run = 0
    /\ calls = [s \in Stages |-> 0] /\ returns = [s \in Stages |-> 0]
    /\ console = <<>> /\ file = <<>> /\ fileAtCall = <<>>
    /\ df = <<>> /\ split = <<>> /\ heap = <<>> /\ locals = NoLocals
    /\ work = NoWork /\ trace = <<>> /\ prev = <<>>

IdleGm == gmAvail = FALSE /\ gmLog = <<>>

IdleBp == bpTable = <<>> /\ bpPlan = <<>> /\ bpFit = <<>> /\ bpOut = <<>>

\* the process as it starts executing main.py: nothing bound yet, the
\* generator in whatever state numpy's import seeds it, the artifact path
\* empty or holding an older file
InitMain ==
    /\ host \in {"script", "interactive"}
    /\ mod = "imports" /\ modFault = "none"
    /\ XGB_AVAILABLE = <<>> /\ SMOTE = "unbound"
    /\ rng \in RngStates
    /\ pc = "idle" /\ fault = "none" /\ run = 0
    /\ calls = [s \in Stages |-> 0] /\ returns = [s \in Stages |-> 0]
    /\ console = <<>>
    /\ file \in {<<>>, <<StaleArtifact>>}
    /\ fileAtCall = file
    /\ df = <<>> /\ split = <<>> /\ heap = <<>> /\ locals = NoLocals
    /\ work = NoWork /\ trace = <<>> /\ prev = <<>>

Init == InitMain /\ IdleGm /\ IdleBp

runVars == <<pc, fault, run, calls, returns, console, file, fileAtCall, df,
             split, heap, locals, work, trace, prev>>

\* lines 1-10: the required imports; a failure propagates
Imports ==
    /\ mod = "imports"
    /\ \E ok \in BOOLEAN :
         IF ok THEN mod' = "try_xgb" /\ modFault' = modFault
               ELSE mod' = "raised" /\ modFault' = "imports"
    /\ UNCHANGED <<host, XGB_AVAILABLE, SMOTE, rng, runVars, gmVars, bpVars>>

\* lines 12-16: only ImportError is caught
TryXgb ==
    /\ mod = "try_xgb"
    /\ \E outcome \in {"imported", "ImportError", "other"} :
         CASE outcome = "imported" ->
                XGB_AVAILABLE' = <<TRUE>> /\ mod' = "try_smote" /\ modFault' = modFault
           [] outcome = "ImportError" ->
                XGB_AVAILABLE' = <<FALSE>> /\ mod' = "try_smote" /\ modFault' = modFault
           [] OTHER ->
                XGB_AVAILABLE' = XGB_AVAILABLE /\ mod' = "raised" /\ modFault' = "try_xgb"
    /\ UNCHANGED <<host, SMOTE, rng, runVars, gmVars, bpVars>>

\* lines 18-21: only ImportError is caught
TrySmote ==
    /\ mod = "try_smote"
    /\ \E outcome \in {"imported", "ImportError", "other"} :
         CASE outcome = "imported" ->
                SMOTE' = "SMOTE" /\ mod' = "guard" /\ modFault' = modFault
           [] outcome = "ImportError" ->
                SMOTE' = "None" /\ mod' = "guard" /\ modFault' = modFault
           [] OTHER ->
                SMOTE' = SMOTE /\ mod' = "raised" /\ modFault' = "try_smote"
    /\ UNCHANGED <<host, XGB_AVAILABLE, rng, runVars, gmVars, bpVars>>

\* what entering main() does to the per-run state
EnterMain ==
    /\ pc' = "generate" /\ fault' = "none" /\ run' = run + 1
    /\ calls' = [s \in Stages |-> 0] /\ returns' = [s \in Stages |-> 0]
    /\ console' = <<>> /\ fileAtCall' = file /\ file' = file
    /\ df' = <<>> /\ split' = <<>> /\ heap' = <<>> /\ locals' = NoLocals
    /\ work' = NoWork /\ trace' = <<>>

\* lines 23-97: the warning filter and the six def statements bind their
\* names and cannot fail; then the guard reads GuardName.  An unbound name
\* raises NameError; a bound one is compared with GuardLiteral and main()
\* is called on equality.
Guard ==
    /\ mod = "guard"
    /\ IF GuardName \notin ModuleGlobals
       THEN /\ mod' = "raised" /\ modFault' = "guard"
            /\ UNCHANGED runVars
       ELSE IF GlobalValue(GuardName) = GuardLiteral
       THEN /\ mod' = "in_main" /\ modFault' = modFault
            /\ EnterMain /\ prev' = prev
       ELSE /\ mod' = "finished" /\ modFault' = modFault
            /\ UNCHANGED runVars
    /\ UNCHANGED <<host, XGB_AVAILABLE, SMOTE, rng, gmVars, bpVars>>

----------------------------------------------------------------------------
(* 6. main(), with train() and evaluate() inlined at their call sites.     *)

\* main() with the artifact written before the model is evaluated
SuccessorSaveFirst(p) ==
    CASE p = "generate" -> "split"
      [] p = "split" -> "print_build"
      [] p = "print_build" -> "build_preprocessor"
      [] p = "build_preprocessor" -> "get_model"
      [] p = "get_model" -> "print_train"
      [] p = "print_train" -> "train_fit_transform"
      [] p = "train_fit_transform" -> "train_smote"
      [] p = "train_smote" -> "train_fit"
      [] p = "train_fit" -> "train_pipeline"
      [] p = "train_pipeline" -> "print_save"
      [] p = "print_save" -> "dump"
      [] p = "dump" -> "print_eval"
      [] p = "print_eval" -> "eval_transform"
      [] p = "eval_transform" -> "eval_predict"
      [] p = "eval_predict" -> "eval_proba"
      [] p = "eval_proba" -> "eval_report"
      [] p = "eval_report" -> "eval_auc"
      [] p = "eval_auc" -> "done"
      [] OTHER -> p

\* the statement that follows statement p when p does not raise
Successor(p) ==
    CASE p = "generate" -> "split"
      [] p = "split" -> "print_build"
      [] p = "print_build" -> "build_preprocessor"
      [] p = "build_preprocessor" -> "get_model"
      [] p = "get_model" -> "print_train"
      [] p = "print_train" -> "train_fit_transform"
      [] p = "train_fit_transform" -> "train_smote"
      [] p = "train_smote" -> "train_fit"
      [] p = "train_fit" -> "train_pipeline"
      [] p = "train_pipeline" -> "print_eval"
      [] p = "print_eval" -> "eval_transform"
      [] p = "eval_transform" -> "eval_predict"
      [] p = "eval_predict" -> "eval_proba"
      [] p = "eval_proba" -> "eval_report"
      [] p = "eval_report" -> "eval_auc"
      [] p = "eval_auc" -> "print_save"
      [] p = "print_save" -> "dump"
      [] p = "dump" -> "done"
      [] OTHER -> p

\* main() with every call wrapped in a handler that swallows the exception
OnRaiseSwallowed(p) == Successor(p)

\* where control goes when the library call of statement p raises: neither
\* main() nor train() nor evaluate() has a handler, so out of main()
OnRaise(p) == "faulted"

\* the argument of the get_model call in main()
MainModelName == "rf"

ProgressLine(text) == [mark |-> TRUE, text |-> text, val |-> 0]
OutputLine(text, val) == [mark |-> FALSE, text |-> text, val |-> val]

\* statement p completes
Step(p) == pc' = Successor(p) /\ fault' = fault
\* the library call of statement p raises
Raise(p) == pc' = OnRaise(p) /\ fault' = p

Enter(stage) == [calls EXCEPT ![stage] = @ + 1]
Leave(stage) == [returns EXCEPT ![stage] = @ + 1]
Logged(call, on) == Append(trace, [call |-> call, on |-> on])

modVars == <<host, mod, modFault, XGB_AVAILABLE, SMOTE>>

\* line 79: df = generate_data()
Generate ==
    /\ pc = "generate"
    /\ calls' = Enter("DataSource")
    /\ \E ok \in BOOLEAN :
         IF ok
         THEN /\ df' = generate_data(NRows, rng).table
              /\ rng' = generate_data(NRows, rng).rng
              /\ returns' = Leave("DataSource")
              /\ Step("generate")
         ELSE /\ Raise("generate")
              /\ UNCHANGED <<df, rng, returns>>
    /\ UNCHANGED <<modVars, run, console, file, fileAtCall, split, heap, locals,
                   work, trace, prev, gmVars, bpVars>>

\* lines 80-82: X, y and the stratified split
Split ==
    /\ pc = "split"
    /\ calls' = Enter("Split")
    /\ \E ok \in BOOLEAN :
         IF ok
         THEN /\ split' = <<[X_train |-> train_test_split(df, rng).X_train,
                             X_test  |-> train_test_split(df, rng).X_test,
                             y_train |-> train_test_split(df, rng).y_train,
                             y_test  |-> train_test_split(df, rng).y_test]>>
              /\ rng' = train_test_split(df, rng).rng
              /\ returns' = Leave("Split")
              /\ Step("split")
         ELSE /\ Raise("split")
              /\ UNCHANGED <<split, rng, returns>>
    /\ UNCHANGED <<modVars, run, console, file, fileAtCall, df, heap, locals,
                   work, trace, prev, gmVars, bpVars>>

\* lines 84, 88, 91, 94: the progress lines
PrintProgress(p, text) ==
    /\ pc = p
    /\ console' = Append(console, ProgressLine(text))
    /\ Step(p)
    /\ UNCHANGED <<modVars, rng, run, calls, returns, file, fileAtCall, df, split,
                   heap, locals, work, trace, prev, gmVars, bpVars>>

PrintBuild == PrintProgress("print_build", "Building pipeline")
PrintTrain == PrintProgress("print_train", "Training model")
PrintEval == PrintProgress("print_eval", "Evaluating model")
PrintSave == PrintProgress("print_save", "Saving model")

\* line 85: preprocessor = build_preprocessor(X_train)
BuildPreprocessor ==
    /\ pc = "build_preprocessor"
    /\ calls' = Enter("PreprocessorBuilder")
    /\ \E ok \in BOOLEAN :
         IF ok
         THEN /\ heap' = Append(heap, NewObject("ColumnTransformer",
                            build_preprocessor(FeatureTable(split[1].X_train))))
              /\ locals' = [locals EXCEPT !.preprocessor = Len(heap) + 1]
              /\ returns' = Leave("PreprocessorBuilder")
              /\ Step("build_preprocessor")
         ELSE /\ Raise("build_preprocessor")
              /\ UNCHANGED <<heap, locals, returns>>
    /\ UNCHANGED <<modVars, rng, run, console, file, fileAtCall, df, split,
                   work, trace, prev, gmVars, bpVars>>

\* line 86: model = get_model("rf")
GetModel ==
    /\ pc = "get_model"
    /\ calls' = Enter("ModelSelector")
    /\ \E ok \in BOOLEAN :
         LET got == get_model(MainModelName, XGB_AVAILABLE[1])
         IN  IF ok /\ got.ok
             THEN /\ heap' = Append(heap, NewObject(got.clf.kind, got.clf.params))
                  /\ locals' = [locals EXCEPT !.model = Len(heap) + 1]
                  /\ returns' = Leave("ModelSelector")
                  /\ Step("get_model")
             ELSE /\ Raise("get_model")
                  /\ UNCHANGED <<heap, locals, returns>>
    /\ UNCHANGED <<modVars, rng, run, console, file, fileAtCall, df, split,
                   work, trace, prev, gmVars, bpVars>>

----------------------------------------------------------------------------
(* 4. train(X, y, preprocessor, model), called at line 89.                 *)

\* line 54: preprocessor.fit_transform(X): the object as fitted, and the
\* transformed rows
FitTransform(obj, X) ==
    LET st == FitPreprocessor(obj.params, X)
    IN  [obj |-> Fitted(obj, st), out |-> Transform(st, X)]

\* line 57 taken whatever SMOTE is bound to
UseSmoteAlways(sm) == TRUE

\* line 57: if SMOTE is not None
UseSmote(sm) == sm # "None"

\* line 59: what fit_resample is given, X_processed and y
ResampleInput(w) == [X |-> w.X_processed, y |-> w.y, on |-> "X_processed"]

TrainFitTransform ==
    /\ pc = "train_fit_transform"
    /\ calls' = Enter("Trainer")
    /\ trace' = Logged("preprocessor.fit_transform", "X_train")
    /\ \E ok \in BOOLEAN :
         LET r == FitTransform(heap[locals.preprocessor], split[1].X_train)
         IN  IF ok /\ r.out.ok
             THEN /\ heap' = [heap EXCEPT ![locals.preprocessor] = r.obj]
                  /\ work' = [work EXCEPT !.X_processed = r.out.rows,
                                          !.y = split[1].y_train]
                  /\ Step("train_fit_transform")
             ELSE /\ Raise("train_fit_transform")
                  /\ UNCHANGED <<heap, work>>
    /\ UNCHANGED <<modVars, rng, run, returns, console, file, fileAtCall, df,
                   split, locals, prev, gmVars, bpVars>>

\* lines 57-59.  Calling SMOTE when it is None raises TypeError.
TrainSmote ==
    /\ pc = "train_smote"
    /\ IF UseSmote(SMOTE)
       THEN LET in == ResampleInput(work)
            IN  /\ trace' = Logged("SMOTE.fit_resample", in.on)
                /\ \E ok \in BOOLEAN :
                     IF ok /\ SMOTE = "SMOTE" /\ ~SmoteRaises(in.y)
                     THEN /\ work' = [work EXCEPT
                                        !.X_processed = fit_resample(in.X, in.y).X,
                                        !.y = fit_resample(in.X, in.y).y]
                          /\ Step("train_smote")
                     ELSE /\ Raise("train_smote")
                          /\ work' = work
       ELSE /\ Step("train_smote")
            /\ UNCHANGED <<work, trace>>
    /\ UNCHANGED <<modVars, rng, run, calls, returns, console, file, fileAtCall,
                   df, split, heap, locals, prev, gmVars, bpVars>>

\* line 62: clf = model.fit(X_processed, y)
TrainFit ==
    /\ pc = "train_fit"
    /\ trace' = Logged("model.fit", "X_processed")
    /\ \E ok \in BOOLEAN :
         IF ok
         THEN /\ heap' = [heap EXCEPT ![locals.model] =
                            FitClassifier(@, work.X_processed, work.y)]
              /\ Step("train_fit")
         ELSE /\ Raise("train_fit")
              /\ heap' = heap
    /\ UNCHANGED <<modVars, rng, run, calls, returns, console, file, fileAtCall,
                   df, split, locals, work, prev, gmVars, bpVars>>

\* lines 65-66 and the assignment of line 89
TrainPipeline ==
    /\ pc = "train_pipeline"
    /\ trace' = Logged("Pipeline", "")
    /\ \E ok \in BOOLEAN :
         IF ok
         THEN /\ heap' = Pipeline(heap, locals.preprocessor, locals.model)
              /\ locals' = [locals EXCEPT !.pipe = Len(heap')]
              /\ returns' = Leave("Trainer")
              /\ Step("train_pipeline")
         ELSE /\ Raise("train_pipeline")
              /\ UNCHANGED <<heap, locals, returns>>
    /\ UNCHANGED <<modVars, rng, run, calls, console, file, fileAtCall, df,
                   split, work, prev, gmVars, bpVars>>

----------------------------------------------------------------------------
(* 5. evaluate(pipe, X_test, y_test), called at line 92.                   *)

\* line 70 with fit_transform in place of transform
EvalPrepRefit(obj, X) == FitTransform(obj, X)

\* line 70: pipe.named_steps["prep"].transform(X_test) leaves the object as
\* it is
EvalPrep(obj, X) == [obj |-> obj, out |-> Transform(obj.state[1], X)]

\* the number of positions at which two label sequences agree
Agreements(a, b) == Cardinality({i \in DOMAIN a : a[i] = b[i]})

EvalTransform ==
    /\ pc = "eval_transform"
    /\ calls' = Enter("Evaluator")
    /\ \E ok \in BOOLEAN :
         LET ref == NamedStep(heap, locals.pipe, "prep")
             fitted == heap[ref].state # <<>>
             r == EvalPrep(heap[ref], split[1].X_test)
         IN  /\ trace' = Logged(IF fitted /\ r.obj # heap[ref]
                                THEN "prep.fit_transform" ELSE "prep.transform",
                                "X_test")
             /\ IF ok /\ fitted /\ r.out.ok
                THEN /\ heap' = [heap EXCEPT ![ref] = r.obj]
                     /\ work' = [work EXCEPT !.X_proc = r.out.rows]
                     /\ Step("eval_transform")
                ELSE /\ Raise("eval_transform")
                     /\ UNCHANGED <<heap, work>>
    /\ UNCHANGED <<modVars, rng, run, returns, console, file, fileAtCall, df,
                   split, locals, prev, gmVars, bpVars>>

\* lines 71-72
EvalPredict ==
    /\ pc = "eval_predict"
    /\ trace' = Logged("clf.predict", "X_proc")
    /\ \E ok \in BOOLEAN :
         LET clf == heap[NamedStep(heap, locals.pipe, "clf")]
         IN  IF ok /\ clf.state # <<>>
             THEN /\ work' = [work EXCEPT !.y_pred = predict(clf.state[1], work.X_proc)]
                  /\ Step("eval_predict")
             ELSE /\ Raise("eval_predict")
                  /\ work' = work
    /\ UNCHANGED <<modVars, rng, run, calls, returns, console, file, fileAtCall,
                   df, split, heap, locals, prev, gmVars, bpVars>>

\* line 73
EvalProba ==
    /\ pc = "eval_proba"
    /\ trace' = Logged("clf.predict_proba", "X_proc")
    /\ \E ok \in BOOLEAN :
         LET clf == heap[NamedStep(heap, locals.pipe, "clf")]
         IN  IF ok /\ clf.state # <<>>
             THEN /\ work' = [work EXCEPT
                                !.y_prob = predict_proba(clf.state[1], work.X_proc)]
                  /\ Step("eval_proba")
             ELSE /\ Raise("eval_proba")
                  /\ work' = work
    /\ UNCHANGED <<modVars, rng, run, calls, returns, console, file, fileAtCall,
                   df, split, heap, locals, prev, gmVars, bpVars>>

\* line 74: print(classification_report(y_test, y_pred))
EvalReport ==
    /\ pc = "eval_report"
    /\ trace' = Logged("classification_report", "y_test")
    /\ \E ok \in BOOLEAN :
         IF ok
         THEN /\ console' = Append(console,
                    OutputLine("classification report",
                               Agreements(split[1].y_test, work.y_pred)))
              /\ Step("eval_report")
         ELSE /\ Raise("eval_report")
              /\ console' = console
    /\ UNCHANGED <<modVars, rng, run, calls, returns, file, fileAtCall, df,
                   split, heap, locals, work, prev, gmVars, bpVars>>

\* line 75: print("ROC AUC:", roc_auc_score(y_test, y_prob)); the score
\* raises when y_test holds a single class
EvalAuc ==
    /\ pc = "eval_auc"
    /\ trace' = Logged("roc_auc_score", "y_test")
    /\ \E ok \in BOOLEAN :
         IF ok
         THEN /\ console' = Append(console, OutputLine("ROC AUC:", SumSeq(work.y_prob)))
              /\ returns' = Leave("Evaluator")
              /\ Step("eval_auc")
         ELSE /\ Raise("eval_auc")
              /\ UNCHANGED <<console, returns>>
    /\ UNCHANGED <<modVars, rng, run, calls, file, fileAtCall, df, split, heap,
                   locals, work, prev, gmVars, bpVars>>

----------------------------------------------------------------------------
(* Persistence and the end of main().                                      *)

\* line 95: joblib.dump(pipe, "fraud_model.pkl"); a dump that raises may
\* leave the path untouched or holding a file cut short
Dump ==
    /\ pc = "dump"
    /\ calls' = Enter("Persistence")
    /\ trace' = Logged("joblib.dump", "pipe")
    /\ \E ok \in BOOLEAN :
         IF ok
         THEN /\ file' = <<Pickle(heap, locals.pipe)>>
              /\ returns' = Leave("Persistence")
              /\ Step("dump")
         ELSE /\ file' \in {file, <<PartialArtifact>>}
              /\ Raise("dump")
              /\ returns' = returns
    /\ UNCHANGED <<modVars, rng, run, console, fileAtCall, df, split, heap,
                   locals, work, prev, gmVars, bpVars>>

\* a fixed probe input
ProbeRows == <<[amount |-> 1, payment_method |-> "UPI",
                device_type |-> "MOBILE", hour |-> 3],
               [amount |-> 5, payment_method |-> "CHEQUE",
                device_type |-> "DESKTOP", hour |-> 9]>>

\* the predictions of a loaded artifact on rows
ArtifactPredict(art, rows) ==
    predict(art.steps[2].obj.state[1],
            Transform(art.steps[1].obj.state[1], rows).rows)

\* what a completed run leaves behind
Outcome ==
    [df |-> df, split |-> split, X_res |-> work.X_processed, y_res |-> work.y,
     artifact |-> file, probe |-> ArtifactPredict(file[1], ProbeRows)]

\* main() called from the prompt of an interactive session (python -i), in
\* which the names bound before line 97 raised stay bound.  The generator
\* is in whatever state the session left it.
CallMain ==
    /\ host = "interactive" /\ mod = "raised" /\ modFault = "guard"
    /\ pc \in {"idle", "done"}
    /\ run < MaxRuns
    /\ prev' = IF pc = "done" THEN <<Outcome>> ELSE prev
    /\ EnterMain
    /\ rng' \in RngStates
    /\ UNCHANGED <<modVars, gmVars, bpVars>>

Next ==
    \/ Imports \/ TryXgb \/ TrySmote \/ Guard \/ CallMain
    \/ Generate \/ Split \/ PrintBuild \/ BuildPreprocessor \/ GetModel
    \/ PrintTrain \/ TrainFitTransform \/ TrainSmote \/ TrainFit \/ TrainPipeline
    \/ PrintEval \/ EvalTransform \/ EvalPredict \/ EvalProba \/ EvalReport
    \/ EvalAuc \/ PrintSave \/ Dump

Spec == Init /\ [][Next]_vars

----------------------------------------------------------------------------
(* get_model called directly, with any name token, in a process where the  *)
(* boosting library is or is not present.                                  *)

ModelNames == {"rf", "xgb", "XGB", "lgbm", ""}

InitGm == IdleMain /\ IdleBp /\ gmAvail \in BOOLEAN /\ gmLog = <<>>

GmCall ==
    /\ Len(gmLog) < MaxCalls
    /\ \E name \in ModelNames :
         gmLog' = Append(gmLog, [name |-> name, result |-> get_model(name, gmAvail)])
    /\ UNCHANGED <<gmAvail, mainVars, bpVars>>

NextGm == GmCall

SpecGetModel == InitGm /\ [][NextGm]_vars

----------------------------------------------------------------------------
(* build_preprocessor called on any feature table, the transformer it      *)
(* returns fit on that table and applied to one further row.  Values are   *)
(* written as small integers whatever the dtype of their column.           *)

ColNames == <<"c1", "c2", "c3", "c4">>
FitValues == {0, 1}
\* the values of the further row: one a fitted table may hold, one it cannot
ProbeValues == {0, 2}

InitBp ==
    /\ IdleMain /\ IdleGm
    /\ \E k \in 1 .. MaxCols, n \in 1 .. MaxFitRows :
         LET cols == SubSeq(ColNames, 1, k)
         IN  \E dt \in [SeqRange(cols) -> Dtypes],
                rows \in [1 .. n -> [SeqRange(cols) -> FitValues]] :
               bpTable = <<[cols |-> cols, dtype |-> dt, rows |-> rows]>>
    /\ bpPlan = <<>> /\ bpFit = <<>> /\ bpOut = <<>>

BpBuild ==
    /\ bpTable # <<>> /\ bpPlan = <<>>
    /\ bpPlan' = <<build_preprocessor(bpTable[1])>>
    /\ UNCHANGED <<bpTable, bpFit, bpOut, mainVars, gmVars>>

BpFit ==
    /\ bpPlan # <<>> /\ bpFit = <<>>
    /\ bpFit' = <<FitPreprocessor(bpPlan[1], bpTable[1].rows)>>
    /\ UNCHANGED <<bpTable, bpPlan, bpOut, mainVars, gmVars>>

BpTransform ==
    /\ bpFit # <<>> /\ bpOut = <<>>
    /\ \E probe \in [SeqRange(bpTable[1].cols) -> ProbeValues] :
         bpOut' = <<[probe |-> probe, out |-> Transform(bpFit[1], <<probe>>)]>>
    /\ UNCHANGED <<bpTable, bpPlan, bpFit, mainVars, gmVars>>

NextBp == BpBuild \/ BpFit \/ BpTransform

SpecPrep == InitBp /\ [][NextBp]_vars

----------------------------------------------------------------------------
(* Properties.                                                             *)

SixStages == {"DataSource", "PreprocessorBuilder", "ModelSelector", "Trainer",
              "Evaluator", "Persistence"}

Texts(lines) == [i \in DOMAIN lines |-> lines[i].text]

IsPrefix(a, b) == Len(a) <= Len(b) /\ a = SubSeq(b, 1, Len(a))

\* the positions of the trace at which a call was made
CallsOf(call) == {i \in DOMAIN trace : trace[i].call = call}

\* the transformer build_preprocessor returns for the training partition,
\* fit on that partition
TrainPlan == build_preprocessor(FeatureTable(split[1].X_train))
TrainPrepState == FitPreprocessor(TrainPlan, split[1].X_train)
TrainTransformed == Transform(TrainPrepState, split[1].X_train).rows

\* the process ended, as a script does
ScriptTerminated ==
    \/ mod \in {"raised", "finished"}
    \/ mod = "in_main" /\ pc \in {"done", "faulted"}

\* no library call raised: the required imports succeeded, each optional one
\* succeeded or raised ImportError, and no call of main() raised
NoLibraryFailure ==
    /\ modFault \notin {"imports", "try_xgb", "try_smote"}
    /\ fault = "none"

\* C1: run as a script, the program performs data generation, split,
\* preprocessor build, model selection, training, evaluation and the write
\* of the artifact, and ends without a fault when no library call fails.
C1_ScriptRunsWorkflow ==
    (host = "script" /\ ScriptTerminated /\ NoLibraryFailure) =>
        /\ modFault = "none"
        /\ pc = "done"
        /\ \A st \in Stages : returns[st] = 1
        /\ file # <<>> /\ file # fileAtCall

\* C2: get_model never raises; it returns the boosted-tree variant exactly
\* when the name is "xgb" and the library is present and the
\* ensemble-of-trees variant otherwise; with the library absent, "xgb" and
\* "rf" give the same classifier.
C2_GetModelFallback ==
    /\ \A i \in DOMAIN gmLog :
         /\ gmLog[i].result.ok
         /\ gmLog[i].result.clf.kind = "XGBClassifier"
              <=> (gmLog[i].name = "xgb" /\ gmAvail)
         /\ gmLog[i].result.clf.kind = "RandomForestClassifier"
              <=> ~(gmLog[i].name = "xgb" /\ gmAvail)
    /\ \A i, j \in DOMAIN gmLog :
         (~gmAvail /\ gmLog[i].name = "xgb" /\ gmLog[j].name = "rf")
            => gmLog[i].result = gmLog[j].result

C2_Witness ==
    /\ ~gmAvail
    /\ \E i, j \in DOMAIN gmLog : gmLog[i].name = "xgb" /\ gmLog[j].name = "rf"

\* C3: once train has returned, the pipeline has exactly the two stages prep
\* and clf, they refer to the preprocessor and the classifier the caller
\* passed in, both are fitted, and each has been fit exactly once.
C3_PipelineReusesFitted ==
    returns["Trainer"] = 1 =>
        LET steps == heap[locals.pipe].params.steps
        IN  /\ heap[locals.pipe].kind = "Pipeline"
            /\ Len(steps) = 2
            /\ steps[1] = [name |-> "prep", ref |-> locals.preprocessor]
            /\ steps[2] = [name |-> "clf", ref |-> locals.model]
            /\ locals.preprocessor # locals.model
            /\ heap[locals.preprocessor].kind = "ColumnTransformer"
            /\ heap[locals.preprocessor].state # <<>>
            /\ heap[locals.model].state # <<>>
            /\ heap[locals.preprocessor].fits = 1
            /\ heap[locals.model].fits = 1
            /\ heap[locals.pipe].fits = 0
            /\ Cardinality(CallsOf("preprocessor.fit_transform")) = 1
            /\ Cardinality(CallsOf("model.fit")) = 1

C3_Witness == pc = "print_eval" /\ returns["Trainer"] = 1

\* the statements of one run after the rebalancing step of train
AfterSmote == {"train_fit", "train_pipeline", "print_eval", "eval_transform",
               "eval_predict", "eval_proba", "eval_report", "eval_auc",
               "print_save", "dump", "done"}

\* what the classifier is to be fit on
ExpectedFitInput ==
    IF SMOTE = "SMOTE"
    THEN [X |-> fit_resample(TrainTransformed, split[1].y_train).X,
          y |-> fit_resample(TrainTransformed, split[1].y_train).y]
    ELSE [X |-> TrainTransformed, y |-> split[1].y_train]

\* C4: in train, rebalancing is applied exactly when the capability is
\* available; it runs after the preprocessor is fit and before the
\* classifier is fit, on the transformed features; without the capability
\* the classifier is fit on the transformed training features and the
\* original labels, and the step raises nothing.
C4_RebalanceIffAvailable ==
    /\ CallsOf("SMOTE.fit_resample") # {} => SMOTE = "SMOTE"
    /\ (pc \in AfterSmote /\ SMOTE = "SMOTE") =>
          Cardinality(CallsOf("SMOTE.fit_resample")) = 1
    /\ \A i \in CallsOf("SMOTE.fit_resample") :
          /\ trace[i].on = "X_processed"
          /\ \E j \in CallsOf("preprocessor.fit_transform") : j < i
          /\ \A j \in CallsOf("model.fit") : i < j
    /\ SMOTE = "None" => fault # "train_smote"
    /\ (pc \in AfterSmote \ {"train_fit"}) =>
          /\ heap[locals.model].state[1].X = ExpectedFitInput.X
          /\ heap[locals.model].state[1].y = ExpectedFitInput.y
          /\ SMOTE = "None" =>
                /\ heap[locals.model].state[1].X = TrainTransformed
                /\ heap[locals.model].state[1].y = split[1].y_train

C4_Witness ==
    /\ pc = "train_pipeline" /\ SMOTE = "SMOTE"
    /\ Len(heap[locals.model].state[1].y) > Len(split[1].y_train)

\* C5: a second run of main, whatever state the process-wide generator was
\* in before either run, leaves the same table, split, rebalanced training
\* set and artifact as the first, and the same predictions on the probe.
C5_RunsAgree ==
    (pc = "done" /\ prev # <<>>) => Outcome = prev[1]

C5_Witness == pc = "done" /\ run = 2 /\ prev # <<>> /\ Len(prev[1].df) = NRows

\* C6 as stated: the four progress lines come first, then the
\* classification report, and the ROC AUC line is the last line printed.
C6_ProgressLinesFirst ==
    pc = "done" =>
        Texts(console) = <<"Building pipeline", "Training model", "Evaluating model",
                           "Saving model", "classification report", "ROC AUC:">>

ConsoleOfRun == <<"Building pipeline", "Training model", "Evaluating model",
                  "classification report", "ROC AUC:", "Saving model">>

\* C6 as amended: the output of a run is "Building pipeline", "Training
\* model", "Evaluating model", the classification report, the ROC AUC line
\* and then "Saving model", which is the last line printed; at every moment
\* of a run the console holds a prefix of these six.
C6_ConsoleOrder ==
    /\ IsPrefix(Texts(console), ConsoleOfRun)
    /\ pc = "done" => Texts(console) = ConsoleOfRun
    /\ \A i \in DOMAIN console :
          console[i].mark <=> console[i].text \notin {"classification report", "ROC AUC:"}

C6_Witness == pc = "done" /\ Len(console) = 6

\* C7: in one run of main each stage is entered at most once and never
\* before the stage it depends on has completed: Data Source, then
\* Preprocessor Builder and Model Selector, then Trainer, then Evaluator,
\* then persistence; a completed run has completed each stage exactly once.
C7_StagesOnceInOrder ==
    /\ \A st \in Stages : calls[st] <= 1 /\ returns[st] <= calls[st]
    /\ calls["Split"] >= 1 => returns["DataSource"] = 1
    /\ calls["PreprocessorBuilder"] >= 1 =>
          returns["DataSource"] = 1 /\ returns["Split"] = 1
    /\ calls["ModelSelector"] >= 1 => returns["DataSource"] = 1
    /\ calls["Trainer"] >= 1 =>
          returns["PreprocessorBuilder"] = 1 /\ returns["ModelSelector"] = 1
    /\ calls["Evaluator"] >= 1 => returns["Trainer"] = 1
    /\ calls["Persistence"] >= 1 => returns["Evaluator"] = 1
    /\ file # fileAtCall => returns["Evaluator"] = 1
    /\ pc = "done" => \A st \in SixStages : calls[st] = 1 /\ returns[st] = 1

C7_Witness == pc = "done" /\ \A st \in SixStages : returns[st] = 1

\* the statements of main in program order, and the stage each one enters
Statements == <<"generate", "split", "print_build", "build_preprocessor",
                "get_model", "print_train", "train_fit_transform", "train_smote",
                "train_fit", "train_pipeline", "print_eval", "eval_transform",
                "eval_predict", "eval_proba", "eval_report", "eval_auc",
                "print_save", "dump">>
Position(p) == CHOOSE i \in DOMAIN Statements : Statements[i] = p
EntryOf(st) ==
    CASE st = "DataSource" -> "generate"
      [] st = "Split" -> "split"
      [] st = "PreprocessorBuilder" -> "build_preprocessor"
      [] st = "ModelSelector" -> "get_model"
      [] st = "Trainer" -> "train_fit_transform"
      [] st = "Evaluator" -> "eval_transform"
      [] st = "Persistence" -> "dump"

\* C8: a library call that raises ends the run: control leaves main, no
\* stage after the failing statement is entered, nothing more is printed,
\* and unless the failing call is the dump itself the artifact path is as
\* it was when the run began.  A failure of a required import, or a failure
\* of an optional import other than its absence, ends the module load; the
\* absence of an optional dependency does not.
C8_FailureIsFatal ==
    /\ fault # "none" => pc = "faulted"
    /\ pc = "faulted" =>
          /\ fault \in SeqRange(Statements)
          /\ \A st \in Stages :
                Position(EntryOf(st)) > Position(fault) => calls[st] = 0
          /\ \A st \in Stages : returns[st] = 1 => Position(EntryOf(st)) < Position(fault)
          /\ fault # "dump" => file = fileAtCall
          /\ fault = "dump" => file \in {fileAtCall, <<PartialArtifact>>}
    /\ modFault \in {"imports", "try_xgb", "try_smote"} =>
          mod = "raised" /\ run = 0 /\ file = fileAtCall
    /\ mod \in {"try_smote", "guard"} => modFault = "none"
    /\ (XGB_AVAILABLE = <<FALSE>> /\ mod = "try_smote") => modFault = "none"

C8_Witness ==
    /\ pc = "faulted" /\ fault = "train_fit"
    /\ file = <<StaleArtifact>> /\ SMOTE = "None" /\ XGB_AVAILABLE = <<FALSE>>

\* C10: one preprocessor and one classifier are created per run; from the
\* return of train on, through evaluation and persistence, each holds the
\* state fitted on the training partition and has been fit once; no fit is
\* given the held-out partition; the artifact written holds that state.
C10_FittedStateFrozen ==
    /\ Cardinality({i \in DOMAIN heap : heap[i].kind = "ColumnTransformer"}) <= 1
    /\ Cardinality({i \in DOMAIN heap :
                      heap[i].kind \in {"RandomForestClassifier", "XGBClassifier"}}) <= 1
    /\ \A i \in DOMAIN trace :
          trace[i].on = "X_test" => trace[i].call = "prep.transform"
    /\ returns["Trainer"] = 1 =>
          /\ heap[locals.preprocessor] =
                Fitted(NewObject("ColumnTransformer", TrainPlan), TrainPrepState)
          /\ heap[locals.model] =
                FitClassifier(NewObject(RandomForestClassifier.kind,
                                        RandomForestClassifier.params),
                              ExpectedFitInput.X, ExpectedFitInput.y)
    /\ pc = "done" =>
          /\ file = <<Pickle(heap, locals.pipe)>>
          /\ file[1].steps[1].obj.state = <<TrainPrepState>>
          /\ file[1].steps[2].obj.state[1].X = ExpectedFitInput.X
          /\ file[1].steps[2].obj.state[1].y = ExpectedFitInput.y

C10_Witness ==
    /\ pc = "done" /\ Len(work.y_pred) > 0
    /\ file[1].steps[1].obj.fits = 1 /\ file[1].steps[2].obj.fits = 1

\* the columns of a table whose dtype is numeric, and the others
NumericInputs(t) == {c \in SeqRange(t.cols) : t.dtype[c] \in {"int64", "float64"}}
OtherInputs(t) == SeqRange(t.cols) \ NumericInputs(t)

\* the indicator columns of a transformed row, as <<column, category>>
Indicators(row) == UNION {{<<c, v>> : v \in DOMAIN row.ind[c]} : c \in DOMAIN row.ind}

\* C9: build_preprocessor puts every column of the table in exactly one of
\* the numeric and categorical groups; after fitting, a transformed row has
\* one numeric output per numeric input column and one indicator per
\* distinct category observed at fit time over the categorical columns; a
\* category unseen at fit time gives all-zero indicators for its column and
\* no error.
C9_PartitionAndWidths ==
    /\ bpPlan # <<>> =>
          LET t == bpTable[1]
              num == bpPlan[1].num
              cat == bpPlan[1].cat
          IN  /\ SeqRange(num) \cup SeqRange(cat) = SeqRange(t.cols)
              /\ SeqRange(num) \cap SeqRange(cat) = {}
              /\ Len(num) + Len(cat) = Len(t.cols)
              /\ SeqRange(num) = NumericInputs(t)
    /\ bpOut # <<>> =>
          LET t == bpTable[1]
              probe == bpOut[1].probe
              out == bpOut[1].out
          IN  /\ out.ok
              /\ Len(out.rows) = 1
              /\ Cardinality(DOMAIN out.rows[1].num) = Cardinality(NumericInputs(t))
              /\ Indicators(out.rows[1]) =
                    UNION {{<<c, t.rows[i][c]>> : i \in DOMAIN t.rows} : c \in OtherInputs(t)}
              /\ \A c \in OtherInputs(t) :
                    (\A i \in DOMAIN t.rows : t.rows[i][c] # probe[c]) =>
                        \A v \in DOMAIN out.rows[1].ind[c] : out.rows[1].ind[c][v] = 0
              /\ \A c \in OtherInputs(t) :
                    (\E i \in DOMAIN t.rows : t.rows[i][c] = probe[c]) =>
                        out.rows[1].ind[c][probe[c]] = 1

C9_Witness ==
    /\ bpOut # <<>> /\ bpOut[1].out.ok
    /\ \E c \in OtherInputs(bpTable[1]) :
          /\ bpTable[1].dtype[c] = "bool"
          /\ \A i \in DOMAIN bpTable[1].rows : bpTable[1].rows[i][c] # bpOut[1].probe[c]
    /\ NumericInputs(bpTable[1]) # {}

====
